---------------------------- MODULE Spec2Model ----------------------------
(***************************************************************************)
(* Ingestion job management of the shodh repository.                       *)
(*                                                                         *)
(*   src/src/services/ingestion_manager.py   IngestionJobManager           *)
(*   src/src/api/routes/papers.py            background_ingest_paper       *)
(*                                                                         *)
(* Python values are modelled as follows.  A dict is a sequence of its     *)
(* values in insertion order when the code reads that order (active_jobs,  *)
(* whose values() feed a stable sort) and a function otherwise.  None is   *)
(* the string "None"; an optional int argument is <<>> or <<n>>.  A job's  *)
(* "error" key, which the code only creates on a failure, is the field     *)
(* error with value None while the key is absent.                          *)
(***************************************************************************)
EXTENDS Integers, Sequences, FiniteSets, TLC

VARIABLES
    active_jobs,   \* IngestionJobManager.active_jobs: jobs in insertion order
    queued_jobs,   \* IngestionJobManager.queued_jobs: paper_id -> job
    queue_order,   \* IngestionJobManager.queue_order: list of paper ids
    now,           \* the wall clock read by datetime.utcnow()
    ret,           \* value returned by the last direct call of the manager
    effect,        \* history: what the last call of the manager moved
    all_jobs,      \* the list returned, when the last call was get_all_jobs
    db,            \* UserPaper.ingestion_status per paper id ("absent": no row)
    pc,            \* per worker: its position in background_ingest_paper
    wpaper,        \* per worker: the paper_id argument (0 before its request)
    init_status,   \* per worker: the local init_status
    index,         \* the Qdrant collection: point id -> payload
    added,         \* the last add_documents call: arguments and outcome
    search,        \* the last hybrid_search call: arguments and output
    md,            \* the lines of the markdown file docling saved
    paper,         \* what DoclingParser.parse returned, or raised
    _redis_connection,  \* jobs/queue.py: the module-level connection
    redis_up,      \* whether the Redis server answers
    enqueued,      \* the last enqueue_ingestion call and its outcome
    rq_queue,      \* the jobs waiting in the RQ queue "default"
    tpc,           \* per RQ worker: its position in ingest_paper_task
    tjob,          \* per RQ worker: the job it runs
    hpc,           \* per request: its position in add_paper_to_project
    hloaded,       \* per request: paper.ingestion_status as its session has it
    files,         \* per paper: the chunks in the file at its PDF path
    dl             \* the last PDFDownloader.download call and its outcome

mvars == <<active_jobs, queued_jobs, queue_order, effect, all_jobs>>
wvars == <<db, pc, wpaper, init_status>>
qvars == <<_redis_connection, redis_up, enqueued, rq_queue, tpc, tjob, hpc,
           hloaded>>
fvars == <<files, dl>>
svars == <<index, added, search, md, paper, qvars, fvars>>
vars == <<active_jobs, queued_jobs, queue_order, now, ret, effect,
          all_jobs, db, pc, wpaper, init_status, index, added, search, md,
          paper, _redis_connection, redis_up, enqueued, rq_queue, tpc, tjob,
          hpc, hloaded, files, dl>>

---------------------------------------------------------------------------
(* Bounds *)

\* The code sets MAX_JOBS = 10 (ingestion_manager.py:18); the model scales
\* the capacity down so that full sets, queues and evictions are reached.
MAX_JOBS == 2

\* Ingestion requests of the worker specification, each run by a thread of
\* its own.
NumWorkers == 3

\* The clock runs over 0..MaxTime and stays at MaxTime afterwards.
MaxTime == 1

\* Clock ticks per second: a tick that falls on a whole second has a zero
\* microsecond field.
TicksPerSecond == 2

\* Paper ids of the manager specification: enough for a queue of two.
PaperIds == 1..(MAX_JOBS + 2)

\* Paper ids requested in the worker specification: enough for a queue.
WorkerPapers == 1..(MAX_JOBS + 1)

Workers == 1..NumWorkers

---------------------------------------------------------------------------
(* Python helpers *)

None == "None"

\* Truthiness of an optional string argument: `if step:`, `if error:`.
Truthy(x) == x # None /\ x # ""

\* datetime.isoformat(): "....:SS" when the microsecond field is 0 and
\* "....:SS.ffffff" otherwise.  The fixed-width fields are kept as numbers,
\* the string as the sequence of its fields.
isoformat(t) ==
    LET s == t \div TicksPerSecond
        u == t % TicksPerSecond
    IN  IF u = 0 THEN <<s>> ELSE <<s, u>>

\* Python's str.__lt__: lexicographic, a proper prefix is smaller.
RECURSIVE str_lt(_, _)
str_lt(a, b) ==
    IF b = <<>> THEN FALSE
    ELSE IF a = <<>> THEN TRUE
    ELSE IF Head(a) # Head(b) THEN Head(a) < Head(b)
    ELSE str_lt(Tail(a), Tail(b))

\* title=paper_title or f"Paper {paper_id}" at the call site, then
\* `title or paper_id` in add_job.
TitleOf(paper_id) == <<"Paper", paper_id>>

\* `key in dict` for a dict kept as a sequence of jobs.
Keys(jobs) == {jobs[i].paper_id : i \in 1..Len(jobs)}

\* dict[key] for a dict kept as a sequence of jobs.
Get(jobs, paper_id) ==
    jobs[CHOOSE i \in 1..Len(jobs) : jobs[i].paper_id = paper_id]

\* del dict[key]
Del(jobs, paper_id) == SelectSeq(jobs, LAMBDA j : j.paper_id # paper_id)

\* dict[key] = job: in place for an existing key, at the end for a new one.
Put(jobs, paper_id, job) ==
    IF paper_id \in Keys(jobs)
    THEN [i \in 1..Len(jobs) |->
            IF jobs[i].paper_id = paper_id THEN job ELSE jobs[i]]
    ELSE Append(jobs, job)

\* dict.pop(key) for a dict kept as a function.
Without(f, k) == [x \in (DOMAIN f) \ {k} |-> f[x]]

With(f, k, v) == [x \in (DOMAIN f) \cup {k} |-> IF x = k THEN v ELSE f[x]]

---------------------------------------------------------------------------
(* IngestionJobManager *)

Terminal == {"completed", "failed"}

\* The manager's three collections as one value.
Manager == [active_jobs |-> active_jobs,
            queued_jobs |-> queued_jobs,
            queue_order |-> queue_order]

new_job(paper_id, t) ==
    [paper_id   |-> paper_id,
     title      |-> TitleOf(paper_id),
     status     |-> "pending",
     progress   |-> 0,
     start_time |-> isoformat(t),
     step       |-> "queued",
     error      |-> None]

running_jobs(jobs) == SelectSeq(jobs, LAMBDA j : j.status \notin Terminal)

\* Mutant: failed jobs are not eviction candidates.
candidates_completed_only(jobs) ==
    SelectSeq(jobs, LAMBDA j : j.status = "completed")

candidates(jobs) == SelectSeq(jobs, LAMBDA j : j.status \in Terminal)

\* Mutant: the newest candidate instead of the oldest.
to_remove_newest(c) ==
    c[CHOOSE i \in 1..Len(c) :
        \A k \in 1..Len(c) : ~ str_lt(c[i].start_time, c[k].start_time)]

\* candidates.sort(key=start_time); candidates[0].  The sort is stable:
\* among equal keys the first in insertion order comes first.
to_remove(c) ==
    c[CHOOSE i \in 1..Len(c) :
        /\ \A k \in 1..Len(c) : ~ str_lt(c[k].start_time, c[i].start_time)
        /\ \A k \in 1..(i - 1) : str_lt(c[i].start_time, c[k].start_time)]

\* "Evict oldest completed/failed" when the active set is at capacity.
evict(jobs) ==
    IF Len(jobs) >= MAX_JOBS
    THEN IF candidates(jobs) # <<>>
         THEN Del(jobs, to_remove(candidates(jobs)).paper_id)
         ELSE jobs
    ELSE jobs

\* Mutant: the slot test off by one.
has_slot_off_by_one(jobs) == Len(running_jobs(jobs)) <= MAX_JOBS

\* `len(running_jobs) < self.MAX_JOBS`
has_slot(jobs) == Len(running_jobs(jobs)) < MAX_JOBS

\* Mutant: a paper that is already queued is queued again.
add_job_requeue(m, paper_id, t) ==
    IF paper_id \in Keys(m.active_jobs)
    THEN [m |-> m, ret |-> Get(m.active_jobs, paper_id).status]
    ELSE IF has_slot(m.active_jobs)
    THEN [m |-> [m EXCEPT !.active_jobs =
                    Put(evict(m.active_jobs), paper_id, new_job(paper_id, t))],
          ret |-> "pending"]
    ELSE [m |-> [m EXCEPT
                    !.queued_jobs = With(m.queued_jobs, paper_id,
                        [new_job(paper_id, t) EXCEPT !.status = "queued"]),
                    !.queue_order = Append(m.queue_order, paper_id)],
          ret |-> "queued"]

\* add_job: the manager after the call, and the value returned.  t is the
\* clock value read for start_time.
add_job(m, paper_id, t) ==
    IF paper_id \in Keys(m.active_jobs)
    THEN [m |-> m, ret |-> Get(m.active_jobs, paper_id).status]
    ELSE IF paper_id \in DOMAIN m.queued_jobs
    THEN [m |-> m, ret |-> "queued"]
    ELSE IF has_slot(m.active_jobs)
    THEN [m |-> [m EXCEPT !.active_jobs =
                    Put(evict(m.active_jobs), paper_id, new_job(paper_id, t))],
          ret |-> "pending"]
    ELSE [m |-> [m EXCEPT
                    !.queued_jobs = With(m.queued_jobs, paper_id,
                        [new_job(paper_id, t) EXCEPT !.status = "queued"]),
                    !.queue_order = Append(m.queue_order, paper_id)],
          ret |-> "queued"]

\* Mutant: pop() instead of pop(0).
pop_last(order) ==
    [id |-> order[Len(order)], rest |-> SubSeq(order, 1, Len(order) - 1)]

\* queue_order.pop(0): the id popped and the list left.
pop_first(order) == [id |-> Head(order), rest |-> Tail(order)]

\* A variant that leaves the promoted job in queued_jobs.
_process_queue_unsafe_no_pop(m) ==
    IF m.queue_order = <<>> THEN m
    ELSE IF has_slot(m.active_jobs)
    THEN LET popped == pop_first(m.queue_order)
             job    == m.queued_jobs[popped.id]
         IN  [active_jobs |-> Put(evict(m.active_jobs), popped.id,
                                  [job EXCEPT !.status = "pending"]),
              queued_jobs |-> m.queued_jobs,
              queue_order |-> popped.rest]
    ELSE m

_process_queue_unsafe(m) ==
    IF m.queue_order = <<>> THEN m
    ELSE IF has_slot(m.active_jobs)
    THEN LET popped == pop_first(m.queue_order)
             job    == m.queued_jobs[popped.id]
         IN  [active_jobs |-> Put(evict(m.active_jobs), popped.id,
                                  [job EXCEPT !.status = "pending"]),
              queued_jobs |-> Without(m.queued_jobs, popped.id),
              queue_order |-> popped.rest]
    ELSE m

\* The fields update_job writes into the job: status always, step and error
\* when truthy, progress when not None.
updated(job, status, step, progress, error) ==
    [job EXCEPT
        !.status   = status,
        !.step     = IF Truthy(step) THEN step ELSE @,
        !.progress = IF progress # <<>> THEN progress[1] ELSE @,
        !.error    = IF Truthy(error) THEN error ELSE @]

\* A variant that never promotes from the queue.
update_job_no_promote(m, paper_id, status, step, progress, error) ==
    IF paper_id \in Keys(m.active_jobs)
    THEN [m EXCEPT !.active_jobs =
             Put(@, paper_id,
                 updated(Get(@, paper_id), status, step, progress, error))]
    ELSE m

update_job(m, paper_id, status, step, progress, error) ==
    IF paper_id \in Keys(m.active_jobs)
    THEN LET m1 == [m EXCEPT !.active_jobs =
                        Put(@, paper_id,
                            updated(Get(@, paper_id), status, step,
                                    progress, error))]
         IN  IF status \in Terminal THEN _process_queue_unsafe(m1) ELSE m1
    ELSE m   \* queued: pass; untracked: a warning is logged

get_job_status(m, paper_id) ==
    IF paper_id \in Keys(m.active_jobs)
    THEN Get(m.active_jobs, paper_id).status
    ELSE IF paper_id \in DOMAIN m.queued_jobs THEN "queued"
    ELSE "unknown"

clear_job(m, paper_id) ==
    IF paper_id \in Keys(m.active_jobs)
    THEN [m EXCEPT !.active_jobs = Del(@, paper_id)]
    ELSE m

\* sorted(jobs, key=start_time, reverse=True): the sort is stable, equal
\* keys stay in their order.
RECURSIVE sorted_reverse(_)
sorted_reverse(jobs) ==
    IF jobs = <<>> THEN <<>>
    ELSE LET rest == sorted_reverse(SubSeq(jobs, 1, Len(jobs) - 1))
             j == jobs[Len(jobs)]
             before == SelectSeq(rest,
                         LAMBDA x : ~str_lt(x.start_time, j.start_time))
             after == SelectSeq(rest,
                         LAMBDA x : str_lt(x.start_time, j.start_time))
         IN  before \o <<j>> \o after

\* The class defines get_all_jobs twice (lines 139 and 150); the second
\* definition is the one the class keeps.
get_all_jobs(m) == sorted_reverse(m.active_jobs)

---------------------------------------------------------------------------
(* The vector store (src/src/db/qdrant_store.py) *)

\* An empty collection, and no search made yet.
NoPoints == [x \in {} |-> x]
NoSearch == [called |-> FALSE]
NotAdded == [called |-> FALSE]

\* Before docling has saved a markdown file, and before parse is called.
NoFile == <<>>

NotParsed == [called |-> FALSE]

\* Processes that index documents differ in the seed of Python's str hash
\* (random at interpreter start unless PYTHONHASHSEED is set, in which case
\* two processes have the same seed).
HashSeeds == {0, 1}

StorePapers == {"A", "B"}

\* Chunk texts are sequences of characters; the code takes the first 100
\* characters of a text into the point id (line 167), the model the first
\* PrefixLen.
PrefixLen == 1

MaxDocs == 2
MaxPoints == 4

Chunks ==
    {[text |-> <<"a">>, section |-> "abstract"],
     [text |-> <<"a", "b">>, section |-> "methods"],
     [text |-> <<"c">>, section |-> "methods"]}

\* The chunk lists handed to add_documents.
DocLists == UNION {[1..n -> Chunks] : n \in 0..MaxDocs}

\* text[:100]
prefix(text) ==
    SubSeq(text, 1, IF Len(text) < PrefixLen THEN Len(text) ELSE PrefixLen)

\* hash(str) of the process with the given seed: equal strings have equal
\* hashes within one process; the value depends on the seed.
py_hash(seed, str) == <<seed, str>>

\* line 167: abs(hash(f"{paper_id}_{i}_{text[:100]}")) % (2**63), with
\* enumerate counting from 0; the formatted string is kept as its parts.
doc_id(seed, paper_id, i, text) ==
    py_hash(seed, <<paper_id, i - 1, prefix(text)>>)

\* lines 156-181: the payload is the text and the metadata with paper_id.
payload(paper_id, doc) ==
    [content |-> doc.text, paper_id |-> paper_id, section |-> doc.section]

\* client.upsert (lines 185-188): a point whose id exists is overwritten.
upsert(idx, ids, pay) ==
    [x \in DOMAIN idx \cup ids |-> IF x \in ids THEN pay[x] ELSE idx[x]]

\* The texts for which embed_model.get_text_embedding raises (line 160).
FailingTexts == {{}, {<<"c">>}, {<<"a", "b">>}}

\* A variant that upserts every point as soon as it is built.
add_documents_point_by_point(idx, seed, documents, paper_id, fails) ==
    IF documents = <<>>
    THEN [index |-> idx, raised |-> FALSE, ret |-> 0, upserts |-> 0]
    ELSE LET n   == Len(documents)
             bad == {i \in 1..n : documents[i].text \in fails}
             m   == IF bad = {} THEN n
                    ELSE (CHOOSE i \in bad : \A j \in bad : i <= j) - 1
             id(i) == doc_id(seed, paper_id, i, documents[i].text)
             ids == {id(i) : i \in 1..m}
             last(x) == CHOOSE i \in 1..m :
                           id(i) = x /\ \A j \in 1..m : id(j) = x => j <= i
             pay == [x \in ids |-> payload(paper_id, documents[last(x)])]
         IN  IF bad # {}
             THEN [index |-> upsert(idx, ids, pay), raised |-> TRUE,
                   upserts |-> m]
             ELSE [index |-> upsert(idx, ids, pay), raised |-> FALSE,
                   ret |-> n, upserts |-> n]

\* add_documents (lines 134-191) run by a process with the given hash seed:
\* the collection afterwards, whether the call raised, the number returned
\* and the number of upsert calls made.  An exception of the embedding
\* model leaves the loop before the upsert.
add_documents(idx, seed, documents, paper_id, fails) ==
    IF documents = <<>>
    THEN [index |-> idx, raised |-> FALSE, ret |-> 0, upserts |-> 0]
    ELSE LET n   == Len(documents)
             id(i) == doc_id(seed, paper_id, i, documents[i].text)
             ids == {id(i) : i \in 1..n}
             \* a later point of the batch with the same id wins
             last(x) == CHOOSE i \in 1..n :
                           id(i) = x /\ \A j \in 1..n : id(j) = x => j <= i
             pay == [x \in ids |-> payload(paper_id, documents[last(x)])]
         IN  IF \E i \in 1..n : documents[i].text \in fails
             THEN [index |-> idx, raised |-> TRUE, upserts |-> 0]
             ELSE [index |-> upsert(idx, ids, pay), raised |-> FALSE,
                   ret |-> n, upserts |-> 1]

\* The paper_id argument of hybrid_search (Optional[Any]): None, a string
\* or a list of strings; the tag stands for the Python type.
PyNone == [t |-> "none"]
PyStr(v) == [t |-> "str", v |-> v]
PyList(v) == [t |-> "list", v |-> v]

\* `if paper_id:` (line 223): None, "" and [] are false.
truthy(a) ==
    CASE a.t = "none" -> FALSE
      [] a.t = "str"  -> a.v # ""
      [] a.t = "list" -> a.v # <<>>

\* lines 220-241: the filter conditions, a list that is None when empty.
build_filter(paper_id, section) ==
    LET byp == IF truthy(paper_id)
               THEN IF paper_id.t = "list"
                    THEN <<[key |-> "paper_id", match |-> "any",
                            value |-> {paper_id.v[i] :
                                         i \in 1..Len(paper_id.v)}]>>
                    ELSE <<[key |-> "paper_id", match |-> "value",
                            value |-> paper_id.v]>>
               ELSE <<>>
        bys == IF Truthy(section)
               THEN <<[key |-> "section", match |-> "value",
                       value |-> section]>>
               ELSE <<>>
    IN  byp \o bys

\* Filter(must=...): a payload passes when it meets every condition; the
\* empty list stands for query_filter = None.
passes(pay, query_filter) ==
    \A i \in 1..Len(query_filter) :
        LET c == query_filter[i]
            field == IF c.key = "paper_id" THEN pay.paper_id ELSE pay.section
        IN  IF c.match = "any" THEN field \in c.value ELSE field = c.value

\* Sequences of n distinct elements of S.
InjSeqs(S, n) ==
    {f \in [1..n -> S] : \A i \in 1..n : \A j \in 1..n : i # j => f[i] # f[j]}

take(seq, n) == SubSeq(seq, 1, IF Len(seq) < n THEN Len(seq) ELSE n)

position(seq, x) == CHOOSE i \in 1..Len(seq) : seq[i] = x

\* Fractions <<numerator, denominator>> with positive denominators.
FracLess(p, q) == p[1] * q[2] < q[1] * p[2]

\* A variant of the fusion that keeps the better of the two terms.
rrf_best_rank(lists, x, k) ==
    LET in == {i \in 1..Len(lists) : \E j \in 1..Len(lists[i]) :
                                        lists[i][j] = x}
    IN  IF in = {} THEN <<0, 1>>
        ELSE <<1, k + position(lists[CHOOSE i \in in :
                      \A j \in in : position(lists[i], x)
                                    <= position(lists[j], x)], x)>>

\* Reciprocal rank fusion (Fusion.RRF, line 261) of two candidate lists:
\* the sum over the lists that contain x of 1 / (rank + k).
rrf(lists, x, k) ==
    LET in == {i \in 1..Len(lists) : \E j \in 1..Len(lists[i]) :
                                        lists[i][j] = x}
        den(i) == position(lists[i], x) + k
    IN  IF in = {} THEN <<0, 1>>
        ELSE IF in = {1, 2} THEN <<den(1) + den(2), den(1) * den(2)>>
        ELSE <<1, den(CHOOSE i \in in : TRUE)>>

\* The possible answers to a fused query: the `limit` best candidates by
\* fused score with their scores, best first, ties in any order.
fused(lists, k, keep, limit) ==
    LET cands == {x \in UNION {{lists[i][j] : j \in 1..Len(lists[i])} :
                                 i \in 1..Len(lists)} : keep[x]}
        m == IF Cardinality(cands) < limit THEN Cardinality(cands)
             ELSE limit
        best ==
          {r \in InjSeqs(cands, m) :
            /\ \A i \in 1..m : \A j \in 1..m :
                 i < j => ~FracLess(rrf(lists, r[i], k), rrf(lists, r[j], k))
            /\ \A x \in cands \ {r[i] : i \in 1..m} : \A i \in 1..m :
                 ~FracLess(rrf(lists, r[i], k), rrf(lists, x, k))}
    IN  {[i \in 1..m |-> [id |-> r[i], score |-> rrf(lists, r[i], k)]] :
            r \in best}

\* A variant of query_points that retrieves the candidates from the whole
\* collection and applies the filter to the fused candidates.
query_points_post_filter(idx, dense, sparse, flt, k, pre, limit) ==
    LET keep == [x \in DOMAIN idx |-> passes(idx[x], flt)]
    IN  fused(<<take(dense, pre), take(sparse, pre)>>, k, keep, limit)

\* client.query_points (lines 244-265) with two prefetches of limit `pre`,
\* RRF fusion, a filter and a limit, as the index is specified to answer
\* it: the filter restricts each candidate retrieval, the candidate lists
\* are capped at the prefetch limit and fused, and the best `limit` points
\* are returned.  dense and sparse rank the points of the collection for
\* the query (every point has a dense vector; the sparse ranking holds the
\* points that share a term with the query).
query_points(idx, dense, sparse, flt, k, pre, limit) ==
    LET Keep(x) == passes(idx[x], flt)
        all == [x \in DOMAIN idx |-> TRUE]
    IN  fused(<<take(SelectSeq(dense, Keep), pre),
                take(SelectSeq(sparse, Keep), pre)>>, k, all, limit)

\* lines 267-275: content, score and the payload without content
to_output(idx, points) ==
    [i \in 1..Len(points) |->
        [id       |-> points[i].id,
         content  |-> idx[points[i].id].content,
         score    |-> points[i].score,
         metadata |-> [paper_id |-> idx[points[i].id].paper_id,
                       section  |-> idx[points[i].id].section]]]

\* hybrid_search (lines 193-277): the outputs it can return for a query
\* whose dense and sparse rankings of the collection are given.
hybrid_search(idx, dense, sparse, k, paper_id, section, top_k) ==
    {to_output(idx, points) :
        points \in query_points(idx, dense, sparse,
                                build_filter(paper_id, section), k,
                                top_k * 2, top_k)}

---------------------------------------------------------------------------
(* The RQ queue (src/src/jobs/queue.py, src/src/jobs/ingestion.py) and the  *)
(* PDF store (src/src/ingestion/pdf_downloader.py): sizes and first state.  *)

NumRqWorkers == 2
NumHandlers == 2

\* enqueue_ingestion asks for retry=3 (papers.py:35); the runs of one job are
\* bounded here by a smaller number.
MaxRetries == 1

NoJob == [paper_id |-> 0, retries_left |-> 0]

\* A module just imported, a server that runs, an empty queue, workers and
\* requests not started.
InitQueue ==
    /\ _redis_connection = None
    /\ redis_up = TRUE
    /\ enqueued = [called |-> FALSE]
    /\ rq_queue = <<>>
    /\ tpc = [t \in 1..NumRqWorkers |-> "idle"]
    /\ tjob = [t \in 1..NumRqWorkers |-> NoJob]
    /\ hpc = [h \in 1..NumHandlers |-> "idle"]
    /\ hloaded = [h \in 1..NumHandlers |-> None]

\* No file at a path of the storage directory.
NoFileAt == [exists |-> FALSE, chunks |-> 0]

\* An empty storage directory (pdf_downloader.py:23).
InitFiles ==
    /\ files = [p \in PaperIds |-> NoFileAt]
    /\ dl = [called |-> FALSE]

---------------------------------------------------------------------------
(* Calls of the manager *)

\* Values the next read of the clock can give: the clock never runs back.
ClockReads == {now} \cup (IF now < MaxTime THEN {now + 1} ELSE {})

\* str(e) of the exception caught by background_ingest_paper.
ErrorStrings == {"", "download failed"}

\* The argument lists with which the repository calls update_job
\* (papers.py:215, 224, 233, 242, 251).
UpdateCalls ==
    {[status |-> "processing", step |-> "downloading", progress |-> <<10>>,
      error |-> None],
     [status |-> "processing", step |-> "parsing", progress |-> <<40>>,
      error |-> None],
     [status |-> "processing", step |-> "indexing", progress |-> <<70>>,
      error |-> None],
     [status |-> "completed", step |-> "done", progress |-> <<100>>,
      error |-> None]}
    \cup {[status |-> "failed", step |-> None, progress |-> <<>>,
           error |-> e] : e \in ErrorStrings}

Range(seq) == {seq[i] : i \in 1..Len(seq)}

\* The ids a call took out of the queue into the active set, and the ids it
\* took out of the active set.
NoEffect == [promoted |-> {}, removed |-> {}]

\* The last call was not get_all_jobs.
NoSnapshot == [called |-> FALSE]

EffectOf(m) ==
    [promoted |-> (Range(queue_order) \ Range(m.queue_order))
                    \cap Keys(m.active_jobs),
     removed  |-> Keys(active_jobs) \ Keys(m.active_jobs)]

SetManager(m) ==
    /\ active_jobs' = m.active_jobs
    /\ queued_jobs' = m.queued_jobs
    /\ queue_order' = m.queue_order
    /\ effect' = EffectOf(m)
    /\ all_jobs' = NoSnapshot

\* The clock is read (line 44) only when a new job is built.
AddJob(paper_id) ==
    \E t \in ClockReads :
        LET r == add_job(Manager, paper_id, t) IN
        /\ SetManager(r.m)
        /\ ret' = r.ret
        /\ now' = IF get_job_status(Manager, paper_id) = "unknown"
                  THEN t ELSE now
        /\ UNCHANGED <<wvars, svars>>

UpdateJob(paper_id, c) ==
    /\ SetManager(update_job(Manager, paper_id, c.status, c.step,
                             c.progress, c.error))
    /\ ret' = None
    /\ UNCHANGED <<now, wvars, svars>>

ClearJob(paper_id) ==
    /\ SetManager(clear_job(Manager, paper_id))
    /\ ret' = None
    /\ UNCHANGED <<now, wvars, svars>>

Init ==
    /\ active_jobs = <<>>
    /\ queued_jobs = <<>>
    /\ queue_order = <<>>
    /\ now = 0
    /\ ret = None
    /\ effect = NoEffect
    /\ all_jobs = NoSnapshot
    /\ db = [p \in PaperIds |-> "absent"]
    /\ pc = [w \in Workers |-> "idle"]
    /\ wpaper = [w \in Workers |-> 0]
    /\ init_status = [w \in Workers |-> None]
    /\ index = NoPoints
    /\ added = NotAdded
    /\ search = NoSearch
    /\ InitQueue
    /\ InitFiles
    /\ md = NoFile
    /\ paper = NotParsed

Next ==
    \/ \E p \in PaperIds : AddJob(p)
    \/ \E p \in PaperIds : \E c \in UpdateCalls : UpdateJob(p, c)
    \/ \E p \in PaperIds : ClearJob(p)

Spec == Init /\ [][Next]_vars

\* get_all_jobs between the other calls of the manager.
GetAllJobs ==
    /\ active_jobs' = active_jobs
    /\ queued_jobs' = queued_jobs
    /\ queue_order' = queue_order
    /\ effect' = NoEffect
    /\ all_jobs' = [called |-> TRUE, jobs |-> get_all_jobs(Manager)]
    /\ ret' = None
    /\ UNCHANGED <<now, wvars, svars>>

NextSnapshot ==
    \/ \E p \in PaperIds : AddJob(p)
    \/ \E p \in PaperIds : \E c \in UpdateCalls : UpdateJob(p, c)
    \/ \E p \in PaperIds : ClearJob(p)
    \/ GetAllJobs

SpecSnapshot == Init /\ [][NextSnapshot]_vars

---------------------------------------------------------------------------
(* background_ingest_paper (papers.py:163-266), one thread per request.   *)
(* A stage call (download, parse, ingest) reads and writes nothing the     *)
(* other threads see, so it is one step with the status write after it.    *)

\* _update_status (papers.py:137-161): writes the row when there is one.
_update_status(d, paper_id, status) ==
    IF d[paper_id] # "absent" THEN [d EXCEPT ![paper_id] = status] ELSE d

Goto(w, label) == pc' = [pc EXCEPT ![w] = label]

\* The function returns and its locals are gone; how it returned ("skipped"
\* after line 178, "aborted" after line 209, "done" at the end) is kept as
\* the thread's final position.
Return(w, how) ==
    /\ pc' = [pc EXCEPT ![w] = how]
    /\ init_status' = [init_status EXCEPT ![w] = None]
    /\ UNCHANGED wpaper

IdleWorkers == {w \in Workers : pc[w] = "idle"}

\* Paper ids are opaque keys, so a request names a paper already requested
\* or the next unused id.
Requested ==
    ({wpaper[w] : w \in Workers} \ {0})
    \cup Keys(active_jobs) \cup DOMAIN queued_jobs

Requestable == {p \in WorkerPapers : \A q \in 1..(p - 1) : q \in Requested}

\* add_paper_to_project (projects.py:134-230) with Redis unavailable: the row
\* is created when missing, the task is handed to BackgroundTasks and the
\* status is set to pending; the task starts after the handler has returned,
\* on a thread of its own (the threads are taken in order).
Request(p) ==
    /\ IdleWorkers # {}
    /\ p \in Requestable
    /\ db[p] # "completed"
    /\ LET w == CHOOSE x \in IdleWorkers : \A y \in IdleWorkers : x <= y IN
        /\ pc' = [pc EXCEPT ![w] = "start"]
        /\ wpaper' = [wpaper EXCEPT ![w] = p]
    /\ db' = [db EXCEPT ![p] = "pending"]
    /\ UNCHANGED <<mvars, now, ret, init_status, svars>>

\* A variant without the early return of lines 176-178.
CheckDone_no_skip(w) ==
    /\ pc[w] = "start"
    /\ Goto(w, "add_job")
    /\ UNCHANGED <<mvars, now, ret, db, wpaper, init_status, svars>>

\* lines 172-180: "Check if already done"
CheckDone(w) ==
    /\ pc[w] = "start"
    /\ IF db[wpaper[w]] = "completed"
       THEN Return(w, "skipped")
       ELSE Goto(w, "add_job") /\ UNCHANGED <<wpaper, init_status>>
    /\ UNCHANGED <<mvars, now, ret, db, svars>>

\* line 197: init_status = job_manager.add_job(...)
WorkerAddJob(w) ==
    /\ pc[w] = "add_job"
    /\ \E t \in ClockReads :
        LET r == add_job(Manager, wpaper[w], t) IN
        /\ SetManager(r.m)
        /\ now' = IF get_job_status(Manager, wpaper[w]) = "unknown"
                  THEN t ELSE now
        /\ init_status' = [init_status EXCEPT ![w] = r.ret]
        /\ Goto(w, IF r.ret = "queued" THEN "wait" ELSE "check")
    /\ UNCHANGED <<ret, db, wpaper, svars>>

\* lines 200-204: the polling loop is left when the status read is not queued
\* (a poll that reads queued changes nothing).
WaitQueued(w) ==
    /\ pc[w] = "wait"
    /\ get_job_status(Manager, wpaper[w]) # "queued"
    /\ Goto(w, "check")
    /\ UNCHANGED <<mvars, now, ret, db, wpaper, init_status, svars>>

\* A variant without the abort of lines 208-210.
CheckTracked_no_abort(w) ==
    /\ pc[w] = "check"
    /\ Goto(w, "db_downloading")
    /\ UNCHANGED <<mvars, now, ret, db, wpaper, init_status, svars>>

\* lines 207-210: abort when the job disappeared from the manager
CheckTracked(w) ==
    /\ pc[w] = "check"
    /\ IF get_job_status(Manager, wpaper[w]) = "unknown"
       THEN Return(w, "aborted")
       ELSE Goto(w, "db_downloading") /\ UNCHANGED <<wpaper, init_status>>
    /\ UNCHANGED <<mvars, now, ret, db, svars>>

\* line 214
DbDownloading(w) ==
    /\ pc[w] = "db_downloading"
    /\ db' = _update_status(db, wpaper[w], "downloading")
    /\ Goto(w, "jm_downloading")
    /\ UNCHANGED <<mvars, now, ret, wpaper, init_status, svars>>

\* lines 215, 224, 233: job_manager.update_job(paper_id, "processing", ...)
JmStage(w, at, step, progress, next) ==
    /\ pc[w] = at
    /\ SetManager(update_job(Manager, wpaper[w], "processing", step,
                             <<progress>>, None))
    /\ Goto(w, next)
    /\ UNCHANGED <<now, ret, db, wpaper, init_status, svars>>

\* lines 219+223, 228+232, 237+241: the stage runs; when it returns the next
\* status is written, when it raises control goes to the except clause.
Stage(w, at, status, next) ==
    /\ pc[w] = at
    /\ \/ /\ db' = _update_status(db, wpaper[w], status)
          /\ Goto(w, next)
       \/ /\ Goto(w, "jm_failed")
          /\ UNCHANGED db
    /\ UNCHANGED <<mvars, now, ret, wpaper, init_status, svars>>

\* line 242, then the function returns
JmCompleted(w) ==
    /\ pc[w] = "jm_completed"
    /\ SetManager(update_job(Manager, wpaper[w], "completed", "done",
                             <<100>>, None))
    /\ Return(w, "done")
    /\ UNCHANGED <<now, ret, db, svars>>

\* line 251: job_manager.update_job(paper_id, "failed", error=str(e))
JmFailed(w) ==
    /\ pc[w] = "jm_failed"
    /\ \E e \in ErrorStrings :
        SetManager(update_job(Manager, wpaper[w], "failed", None, <<>>, e))
    /\ Goto(w, "rollback")
    /\ UNCHANGED <<now, ret, db, wpaper, init_status, svars>>

\* lines 253-266: the paper row is deleted, then the function returns
Rollback(w) ==
    /\ pc[w] = "rollback"
    /\ db' = [db EXCEPT ![wpaper[w]] = "absent"]
    /\ Return(w, "done")
    /\ UNCHANGED <<mvars, now, ret, svars>>

WorkerStep(w) ==
    \/ CheckDone(w)
    \/ WorkerAddJob(w)
    \/ WaitQueued(w)
    \/ CheckTracked(w)
    \/ DbDownloading(w)
    \/ JmStage(w, "jm_downloading", "downloading", 10, "download")
    \/ Stage(w, "download", "parsing", "jm_parsing")
    \/ JmStage(w, "jm_parsing", "parsing", 40, "parse")
    \/ Stage(w, "parse", "indexing", "jm_indexing")
    \/ JmStage(w, "jm_indexing", "indexing", 70, "ingest")
    \/ Stage(w, "ingest", "completed", "jm_completed")
    \/ JmCompleted(w)
    \/ JmFailed(w)
    \/ Rollback(w)

NextWorkers ==
    \/ \E p \in WorkerPapers : Request(p)
    \/ \E w \in Workers : WorkerStep(w)

SpecWorkers == Init /\ [][NextWorkers]_vars

\* Every started thread keeps running: its next statement is eventually
\* executed (a stage call returns or raises, a sleeping poll wakes up).
\* Requests come from outside and are under no obligation.
\* Requests are for papers not requested before.
RequestFresh(p) == p \notin Requested /\ Request(p)

NextQueue ==
    \/ \E p \in WorkerPapers : RequestFresh(p)
    \/ \E w \in Workers : WorkerStep(w)

SpecQueueFair ==
    /\ Init /\ [][NextQueue]_vars
    /\ \A w \in Workers : WF_vars(WorkerStep(w))

\* The state after one ingestion of paper 1 whose download raised: the job
\* is tracked as failed, the row is deleted and the thread is gone.
InitAfterFailure ==
    LET m0 == add_job([active_jobs |-> <<>>, queued_jobs |-> <<>>,
                       queue_order |-> <<>>], 1, 0).m
        m1 == update_job(m0, 1, "processing", "downloading", <<10>>, None)
        m2 == update_job(m1, 1, "failed", None, <<>>, "download failed")
    IN  /\ active_jobs = m2.active_jobs
        /\ queued_jobs = m2.queued_jobs
        /\ queue_order = m2.queue_order
        /\ now = 0
        /\ ret = None
        /\ effect = NoEffect
        /\ all_jobs = NoSnapshot
        /\ db = [p \in PaperIds |-> "absent"]
        /\ pc = [w \in Workers |-> "idle"]
        /\ wpaper = [w \in Workers |-> 0]
        /\ init_status = [w \in Workers |-> None]
        /\ index = NoPoints
        /\ added = NotAdded
        /\ search = NoSearch
        /\ InitQueue
        /\ InitFiles
        /\ md = NoFile
        /\ paper = NotParsed

\* Requests that arrive after a failed ingestion (a retry among them).
SpecRetry == InitAfterFailure /\ [][NextWorkers]_vars

---------------------------------------------------------------------------
(* A burst of submissions: add_job for MAX_JOBS + 5 distinct paper ids into *)
(* an empty manager, with stage updates but no terminal update in between.  *)
(* Paper ids are opaque keys, so the ids are taken in order.                *)

BurstIds == 1..(MAX_JOBS + 5)

Tracked == Keys(active_jobs) \cup DOMAIN queued_jobs

BurstAdd(p) ==
    /\ \A q \in 1..(p - 1) : q \in Tracked
    /\ AddJob(p)

BurstUpdate(p, c) ==
    /\ c.status \notin Terminal
    /\ UpdateJob(p, c)

NextBurst ==
    \/ \E p \in BurstIds : BurstAdd(p)
    \/ \E p \in BurstIds : \E c \in UpdateCalls : BurstUpdate(p, c)

SpecBurst == Init /\ [][NextBurst]_vars

---------------------------------------------------------------------------
(* Indexing: add_documents called by processes with their own hash seeds.  *)

AddDocuments(seed, paper_id, documents, fails) ==
    /\ Cardinality(DOMAIN index) < MaxPoints
    /\ LET r == add_documents(index, seed, documents, paper_id, fails) IN
       /\ index' = r.index
       /\ added' = [called |-> TRUE, documents |-> documents,
                    fails |-> fails] @@ [x \in DOMAIN r \ {"index"} |-> r[x]]
    /\ UNCHANGED <<mvars, wvars, now, ret, search, md, paper, qvars, fvars>>

NextIndex ==
    \E seed \in HashSeeds : \E paper_id \in StorePapers :
        \E documents \in DocLists : \E fails \in FailingTexts :
            AddDocuments(seed, paper_id, documents, fails)

SpecIndex == Init /\ [][NextIndex]_vars

---------------------------------------------------------------------------
(* Searching a collection that holds two chunks of each of two papers.     *)

MaxTopK == 2

\* The constant k of the fusion is the index's; small ones and the usual 60.
RrfConstants == {1, 2, 60}

PaperArgs ==
    {PyNone, PyStr(""), PyStr("A"), PyStr("B"),
     PyList(<<>>), PyList(<<"A">>), PyList(<<"A", "B">>)}

SectionArgs == {None, "", "abstract", "methods"}

DocsA ==
    <<[text |-> <<"a">>, section |-> "abstract"],
      [text |-> <<"a", "b">>, section |-> "methods"]>>

DocsB ==
    <<[text |-> <<"c">>, section |-> "methods"],
      [text |-> <<"a">>, section |-> "abstract"]>>

InitSearch ==
    /\ active_jobs = <<>>
    /\ queued_jobs = <<>>
    /\ queue_order = <<>>
    /\ now = 0
    /\ ret = None
    /\ effect = NoEffect
    /\ all_jobs = NoSnapshot
    /\ db = [p \in PaperIds |-> "absent"]
    /\ pc = [w \in Workers |-> "idle"]
    /\ wpaper = [w \in Workers |-> 0]
    /\ init_status = [w \in Workers |-> None]
    /\ index = add_documents(add_documents(NoPoints, 0, DocsA, "A",
                                           {}).index,
                             0, DocsB, "B", {}).index
    /\ added = NotAdded
    /\ search = NoSearch
    /\ InitQueue
    /\ InitFiles
    /\ md = NoFile
    /\ paper = NotParsed

\* One call of hybrid_search; the call reads the collection and changes
\* nothing, so one call from a state shows all there is to see.
Search(dense, sparse, k, paper_id, section, top_k) ==
    /\ ~search.called
    /\ \E output \in hybrid_search(index, dense, sparse, k, paper_id,
                                   section, top_k) :
        search' = [called |-> TRUE, dense |-> dense, sparse |-> sparse,
                   k |-> k, paper_id |-> paper_id, section |-> section,
                   top_k |-> top_k, output |-> output]
    /\ UNCHANGED <<mvars, wvars, now, ret, index, added, md, paper, qvars,
                   fvars>>

NextSearch ==
    /\ ~search.called
    /\ \E dense \in InjSeqs(DOMAIN index, Cardinality(DOMAIN index)) :
       \E sparse \in UNION {InjSeqs(DOMAIN index, n) :
                              n \in 0..Cardinality(DOMAIN index)} :
       \E k \in RrfConstants : \E paper_id \in PaperArgs :
       \E section \in SectionArgs : \E top_k \in 1..MaxTopK :
           Search(dense, sparse, k, paper_id, section, top_k)

SpecSearch == InitSearch /\ [][NextSearch]_vars

---------------------------------------------------------------------------
(* DoclingParser (src/ingestion/docling_parser.py).  A markdown file is a    *)
(* list of lines; a line is the list of its words and whether it matches   *)
(* HEADING_PATTERN.  The documents carry no figures.                       *)

MaxLines == 5

HeadingLines ==
    {<<"Title">>, <<"Abstract">>, <<"abstract">>, <<"1.", "Methods">>,
     <<"1.1", "Data">>, <<"References">>, <<"7">>, <<>>}

TextLines == {<<"Body">>, <<>>}

Lines ==
    [heading : {TRUE}, words : HeadingLines] \cup
    [heading : {FALSE}, words : TextLines]

Files == UNION {[1..n -> Lines] : n \in 1..MaxLines}

\* str.lower() on a word.
lower_word(w) ==
    CASE w = "Title" -> "title"
      [] w = "Abstract" -> "abstract"
      [] w = "Methods" -> "methods"
      [] w = "Data" -> "data"
      [] w = "References" -> "references"
      [] w = "Body" -> "body"
      [] w = "Figure" -> "figure"
      [] w = "Cap" -> "cap"
      [] w = "Cap." -> "cap."
      [] w = "![Image](data:image/png;base64,QUJD)"
           -> "![image](data:image/png;base64,qujd)"
      [] OTHER -> w

\* line 219: lines = list(map(lambda x: x.lower(), lines))
lower(line) ==
    [line EXCEPT !.words = [i \in DOMAIN @ |-> lower_word(@[i])]]

\* lines 225-231: the lines after a heading, up to the next heading.
RECURSIVE content_lines(_, _)
content_lines(lines, next_idx) ==
    IF next_idx > Len(lines) \/ lines[next_idx].heading
    THEN <<>>
    ELSE <<lines[next_idx].words>> \o content_lines(lines, next_idx + 1)

\* str.strip() of the joined lines: blank lines at either end go.
RECURSIVE strip(_)
strip(content) ==
    IF content # <<>> /\ Head(content) = <<>>
    THEN strip(Tail(content))
    ELSE IF content # <<>> /\ content[Len(content)] = <<>>
         THEN strip(SubSeq(content, 1, Len(content) - 1))
         ELSE content

\* str.split("\n") of a content: the empty string gives one empty line.
split(content) == IF content = <<>> THEN <<<<>>>> ELSE content

\* A dict of the parser, in insertion order: a list of key and value.
has_key(d, key) == \E i \in 1..Len(d) : d[i].key = key

get_item(d, key) == d[CHOOSE i \in 1..Len(d) : d[i].key = key].value

\* d[key] = value: in place for an existing key, at the end for a new one.
set_item(d, key, value) ==
    IF has_key(d, key)
    THEN [i \in 1..Len(d) |->
            IF d[i].key = key THEN [key |-> key, value |-> value] ELSE d[i]]
    ELSE Append(d, [key |-> key, value |-> value])

del_item(d, key) == SelectSeq(d, LAMBDA e : e.key # key)

keys(d) == [i \in 1..Len(d) |-> d[i].key]

\* lines 220-233: the loop over the lines.
RECURSIVE scan(_, _, _)
scan(lines, idx, structure) ==
    IF idx > Len(lines)
    THEN structure
    ELSE scan(lines, idx + 1,
              IF lines[idx].heading
              THEN set_item(structure, lines[idx].words,
                            strip(content_lines(lines, idx + 1)))
              ELSE structure)

scan_markdown_structure(file) ==
    LET lines == [i \in 1..Len(file) |-> lower(file[i])]
        structure == scan(lines, 1, <<>>)
    IN  IF has_key(structure, <<"references">>)
        THEN set_item(structure, <<"references">>,
                      split(get_item(structure, <<"references">>)))
        ELSE structure

\* "\n".join(lines): the words of a content, with "\n" between the lines.
RECURSIVE join_lines(_)
join_lines(lines) ==
    IF lines = <<>> THEN <<>>
    ELSE IF Len(lines) = 1 THEN lines[1]
    ELSE lines[1] \o <<"\n">> \o join_lines(Tail(lines))

\* The lines of a string, the empty string having none.
RECURSIVE split_lines(_)
split_lines(words) ==
    IF words = <<>> THEN <<>>
    ELSE IF \A i \in 1..Len(words) : words[i] # "\n" THEN <<words>>
    ELSE LET n == CHOOSE i \in 1..Len(words) :
                    /\ words[i] = "\n"
                    /\ \A j \in 1..(i - 1) : words[j] # "\n"
             rest == SubSeq(words, n + 1, Len(words))
         IN  <<SubSeq(words, 1, n - 1)>> \o
             (IF rest = <<>> THEN <<<<>>>> ELSE split_lines(rest))

\* (\d+): in `figure (\d+): `, and int(group_value) (line 270).
NumberWords == {"1:", "2:"}

int(w) == IF w = "1:" THEN 1 ELSE 2

\* A word that ends with ".", and the word without it.
DotWords == {"cap.", "Cap.", "text."}

before_dot(w) ==
    CASE w = "cap." -> "cap" [] w = "Cap." -> "Cap" [] w = "text." -> "text"

\* base64_only_pattern (line 337): the words it matches, and its group.
base64_only_pattern ==
    {"![image](data:image/png;base64,qujd)",
     "![image](data:image/png;base64,QUJD)",
     "![image](data:image/png;base64,xyz0)"}

base64_data(w) ==
    CASE w = "![image](data:image/png;base64,qujd)" -> "qujd"
      [] w = "![image](data:image/png;base64,QUJD)" -> "QUJD"
      [] w = "![image](data:image/png;base64,xyz0)" -> "xyz0"

\* pattern (line 338) tried at word i: `figure N: `, then as little as
\* possible (re.DOTALL: across lines) up to a "." that ends a line and is
\* followed by an empty line and an image.
Ends(words, i) ==
    {j \in (i + 2)..(Len(words) - 3) :
        /\ words[j] \in DotWords
        /\ words[j + 1] = "\n"
        /\ words[j + 2] = "\n"
        /\ words[j + 3] \in base64_only_pattern}

matches_at(words, i) ==
    /\ i + 2 <= Len(words)
    /\ words[i] = "figure"
    /\ words[i + 1] \in NumberWords
    /\ words[i + 2] # "\n"
    /\ Ends(words, i) # {}

match_at(words, i) ==
    LET j == CHOOSE e \in Ends(words, i) : \A x \in Ends(words, i) : e <= x
    IN  [start |-> i, end |-> j + 3,
         groups |-> <<int(words[i + 1]),
                      SubSeq(words, i + 2, j - 1) \o <<before_dot(words[j])>>,
                      base64_data(words[j + 3])>>]

\* re.finditer: the non-overlapping matches from left to right.
RECURSIVE finditer(_, _)
finditer(words, from) ==
    LET S == {i \in from..Len(words) : matches_at(words, i)}
    IN  IF S = {} THEN <<>>
        ELSE LET i == CHOOSE x \in S : \A y \in S : x <= y
                 m == match_at(words, i)
             IN  <<m>> \o finditer(words, m.end + 1)

\* The string without the matches.
RECURSIVE remaining(_, _, _)
remaining(words, ms, last_end_index) ==
    IF ms = <<>> THEN SubSeq(words, last_end_index + 1, Len(words))
    ELSE SubSeq(words, last_end_index + 1, ms[1].start - 1) \o
         remaining(words, Tail(ms), ms[1].end)

\* lines 238-289
_extract_fig_remove_data(content) ==
    LET words == join_lines(content)
        ms == finditer(words, 1)
    IN  [extracted_data |-> [i \in 1..Len(ms) |-> ms[i].groups],
         cleaned_string |-> split_lines(remaining(words, ms, 0))]

\* lines 291-332, called with base64_only_pattern.
_extract_and_remove_data(content) ==
    LET words == join_lines(content)
    IN  [extracted_data |->
            LET found == SelectSeq(words,
                                   LAMBDA w : w \in base64_only_pattern)
            IN  [i \in 1..Len(found) |-> base64_data(found[i])],
         cleaned_string |->
            split_lines(SelectSeq(words,
                                  LAMBDA w : w \notin base64_only_pattern))]

\* lines 343-362: one entry of the outline.
extract_section(key, content, paper_id) ==
    LET fig == _extract_fig_remove_data(content)
        rest == _extract_and_remove_data(fig.cleaned_string)
        found == fig.extracted_data
    IN  [figs |-> [i \in 1..Len(found) |->
                     [figure_id |-> found[i][1], caption |-> found[i][2],
                      section |-> key, paper_id |-> paper_id,
                      data |-> found[i][3]]],
         content |-> rest.cleaned_string]

\* lines 335-363: every entry but the references becomes
\* {"figs": [...], "content": content}; all_figures collects the figs.
RECURSIVE all_figures(_)
all_figures(outline) ==
    IF outline = <<>> THEN <<>>
    ELSE (IF outline[1].key = <<"references">> THEN <<>>
          ELSE outline[1].value.figs) \o all_figures(Tail(outline))

extract_figures(outline, paper_id) ==
    LET cleaned ==
          [i \in 1..Len(outline) |->
             IF outline[i].key = <<"references">>
             THEN outline[i]
             ELSE [key |-> outline[i].key,
                   value |-> extract_section(outline[i].key,
                                             outline[i].value, paper_id)]]
    IN  [figures |-> all_figures(cleaned), outline |-> cleaned]

\* i[0].isdigit()
DigitWords == {"1.", "1.1", "7"}

\* if sec[-1] == ".": sec = sec[:-1]
drop_dot(sec) == IF sec = "1." THEN "1" ELSE sec

\* len(sec.split(".")) > 1
dotted(sec) == sec \in {"1.", "1.1"}

\* What the loop over the sections raises on a key, if anything.
section_error(i) ==
    IF i = <<>> THEN "IndexError"
    ELSE IF i[1] \in DigitWords /\ Len(i) = 1 THEN "ValueError"
    ELSE None

\* lines 437-462: the Section built for key i.
section_of(paper_ir, i) ==
    LET numbered == i[1] \in DigitWords
        sec == IF numbered THEN drop_dot(i[1]) ELSE None
    IN  [title |-> i,
         content |-> get_item(paper_ir, i).content,
         section_type |-> IF numbered /\ dotted(sec)
                          THEN "subsection" ELSE "section",
         section |-> sec,
         figures |-> [n \in 1..Len(get_item(paper_ir, i).figs) |->
                       [id |-> get_item(paper_ir, i).figs[n].figure_id,
                        caption |-> get_item(paper_ir, i).figs[n].caption]]]

\* parse catches every exception and raises RuntimeError (lines 472-474);
\* the outline was stored before (lines 406-414).
raised(outline, cause) ==
    [called |-> TRUE, ok |-> FALSE, outline |-> outline,
     error |-> "RuntimeError", cause |-> cause]

parse(file, paper_id) ==
    LET build(ir0) ==
          LET outline == keys(ir0)
          IN  IF Len(ir0) = 0 THEN raised(outline, "StopIteration") ELSE
              LET title == ir0[1].key
                  ir1 == del_item(ir0, title)
                  abs == IF has_key(ir1, <<"abstract">>)
                         THEN get_item(ir1, <<"abstract">>).content ELSE <<>>
                  references == IF has_key(ir1, <<"references">>)
                                THEN get_item(ir1, <<"references">>) ELSE <<>>
                  paper_ir == del_item(ir1, <<"references">>)
                  errors == SelectSeq([i \in 1..Len(paper_ir) |->
                                         section_error(paper_ir[i].key)],
                                      LAMBDA e : e # None)
              IN  IF ~has_key(ir1, <<"references">>)
                  THEN raised(outline, "KeyError")
                  ELSE IF errors # <<>> THEN raised(outline, errors[1]) ELSE
                  [called |-> TRUE, ok |-> TRUE, outline |-> outline,
                   title |-> title, abstract |-> abs,
                   sections |-> [i \in 1..Len(paper_ir) |->
                                   section_of(paper_ir, paper_ir[i].key)],
                   references |-> references]
    IN  CHOOSE r \in {build(ir0) : ir0 \in
              {extract_figures(scan_markdown_structure(file),
                               paper_id).outline}} : TRUE

\* parse(pdf_path, paper_id): the paper parsed.
ParsedPaper == "A"

\* Parsing a markdown file that docling saved.
InitParse ==
    /\ active_jobs = <<>>
    /\ queued_jobs = <<>>
    /\ queue_order = <<>>
    /\ now = 0
    /\ ret = None
    /\ effect = NoEffect
    /\ all_jobs = NoSnapshot
    /\ db = [p \in PaperIds |-> "absent"]
    /\ pc = [w \in Workers |-> "idle"]
    /\ wpaper = [w \in Workers |-> 0]
    /\ init_status = [w \in Workers |-> None]
    /\ index = NoPoints
    /\ added = NotAdded
    /\ search = NoSearch
    /\ InitQueue
    /\ InitFiles
    /\ md \in Files
    /\ paper = NotParsed

Parse ==
    /\ ~paper.called
    /\ paper' = parse(md, ParsedPaper)
    /\ UNCHANGED <<mvars, wvars, now, ret, index, added, search, md, qvars,
                   fvars>>

NextParse == Parse

SpecParse == InitParse /\ [][NextParse]_vars

---------------------------------------------------------------------------
(* Figures: scan_markdown_structure and extract_figures on a file with one *)
(* heading and a section of captions, images and text under it.            *)

MaxFigureLines == 5

FigureLines ==
    {<<"Figure", "1:", "Cap.">>, <<"figure", "1:", "cap.">>,
     <<"figure", "2:", "cap">>, <<"text.">>, <<>>,
     <<"![Image](data:image/png;base64,QUJD)">>,
     <<"![image](data:image/png;base64,xyz0)">>}

FigureFiles ==
    UNION {[1..n -> [heading : {FALSE}, words : FigureLines]] :
             n \in 1..MaxFigureLines}

InitFigures ==
    /\ active_jobs = <<>>
    /\ queued_jobs = <<>>
    /\ queue_order = <<>>
    /\ now = 0
    /\ ret = None
    /\ effect = NoEffect
    /\ all_jobs = NoSnapshot
    /\ db = [p \in PaperIds |-> "absent"]
    /\ pc = [w \in Workers |-> "idle"]
    /\ wpaper = [w \in Workers |-> 0]
    /\ init_status = [w \in Workers |-> None]
    /\ index = NoPoints
    /\ added = NotAdded
    /\ search = NoSearch
    /\ InitQueue
    /\ InitFiles
    /\ \E body \in FigureFiles :
          md = <<[heading |-> TRUE, words |-> <<"Methods">>]>> \o body
    /\ paper = NotParsed

\* parse up to its call of extract_figures (lines 405-419).
ExtractFigures ==
    /\ ~paper.called
    /\ paper' = [called |-> TRUE] @@
                extract_figures(scan_markdown_structure(md), ParsedPaper)
    /\ UNCHANGED <<mvars, wvars, now, ret, index, added, search, md, qvars,
                   fvars>>

NextFigures == ExtractFigures

SpecFigures == InitFigures /\ [][NextFigures]_vars

---------------------------------------------------------------------------
(* Properties *)

NonTerminalActive ==
    {i \in 1..Len(active_jobs) :
        active_jobs[i].status \notin {"completed", "failed"}}

TerminalActive ==
    {i \in 1..Len(active_jobs) :
        active_jobs[i].status \in {"completed", "failed"}}

\* C1: in every reachable state of the manager the number of active jobs
\* whose status is neither completed nor failed is at most MAX_JOBS.
C1_RunningBounded == Cardinality(NonTerminalActive) <= MAX_JOBS

\* C1 witness: every slot is taken by a non-terminal job and add_job has
\* just queued a further paper.
C1_Witness ==
    /\ Cardinality(NonTerminalActive) = MAX_JOBS
    /\ ret = "queued"
    /\ queue_order # <<>>

\* C4: after add_job for MAX_JOBS + 5 distinct ids into an empty manager,
\* with no terminal update in between, exactly MAX_JOBS jobs are active in a
\* non-terminal status and exactly the other 5 are queued with status queued.
C4_Burst ==
    Cardinality(Tracked) = MAX_JOBS + 5 =>
        /\ Len(active_jobs) = MAX_JOBS
        /\ Cardinality(NonTerminalActive) = MAX_JOBS
        /\ Cardinality(DOMAIN queued_jobs) = 5
        /\ DOMAIN queued_jobs = BurstIds \ Keys(active_jobs)
        /\ \A q \in DOMAIN queued_jobs : queued_jobs[q].status = "queued"
        /\ Len(queue_order) = 5

\* C4 witness: all MAX_JOBS + 5 ids have been submitted.
C4_Witness == Tracked = BurstIds /\ ret = "queued"

\* C8: the active set never holds more than MAX_JOBS entries, terminal
\* entries included.
C8_ActiveBounded == Len(active_jobs) <= MAX_JOBS

\* C8 witness: a promotion into a full set has just evicted a terminal
\* entry, and the set is full again.
C8_Witness ==
    /\ Len(active_jobs) = MAX_JOBS
    /\ effect.promoted # {}
    /\ effect.removed # {}

\* A worker is executing pipeline stages from its first stage update
\* ("downloading", papers.py:214) up to its terminal update (242 or 251).
ExecutingPcs ==
    {"jm_downloading", "download", "jm_parsing", "parse", "jm_indexing",
     "ingest", "jm_completed", "jm_failed"}

Executing == {w \in Workers : pc[w] \in ExecutingPcs}

\* C2: at any instant at most MAX_JOBS workers of background_ingest_paper
\* are executing pipeline stages, repeated requests for a tracked paper_id
\* included.
C2_ExecutingBounded == Cardinality(Executing) <= MAX_JOBS

\* C3: at no instant do two workers execute pipeline stages for the same
\* paper_id.
C3_OneWorkerPerPaper ==
    \A v, w \in Executing : wpaper[v] = wpaper[w] => v = w

\* The manager after the step.
ManagerNext == [active_jobs |-> active_jobs',
                queued_jobs |-> queued_jobs',
                queue_order |-> queue_order']

TerminalCalls == {c \in UpdateCalls : c.status \in {"completed", "failed"}}

\* A quick test that a step can be update_job(p, c) with c terminal: after
\* it, p has the status of c or has left the active set.
Touched(p, c) ==
    \/ p \notin Keys(active_jobs')
    \/ Get(active_jobs', p).status = c.status

\* C5: whenever update_job sets an active job to completed or failed while
\* the queue is not empty, exactly one queued job, the head of the queue,
\* leaves the queue and is placed in the active set with status pending; the
\* other queued jobs keep their order and stay queued.
C5_PromotesHead ==
    [][(queue_order # <<>> /\ ret' = None) =>
        \A p \in Keys(active_jobs) : \A c \in TerminalCalls :
          (Touched(p, c) /\ UpdateJob(p, c))
          => LET head == Head(queue_order) IN
             /\ queue_order' = Tail(queue_order)
             /\ DOMAIN queued_jobs' = (DOMAIN queued_jobs) \ {head}
             /\ \A q \in DOMAIN queued_jobs' :
                  /\ queued_jobs'[q] = queued_jobs[q]
                  /\ queued_jobs'[q].status = "queued"
             /\ Keys(active_jobs') \ Keys(active_jobs) = {head}
             /\ Get(active_jobs', head) =
                  [queued_jobs[head] EXCEPT !.status = "pending"]
      ]_vars

\* C5 witness: a terminal update has just promoted a job, which is pending
\* in the active set, and another job is still queued.
C5_Witness ==
    /\ ret = None
    /\ effect.promoted # {}
    /\ \A p \in effect.promoted :
        p \in Keys(active_jobs) /\ Get(active_jobs, p).status = "pending"
    /\ queue_order # <<>>

\* C6: admission is strictly FIFO over any sequence of add_job, update_job
\* and clear_job: a job leaves the queue only as its head and into the
\* active set, and while a job is queued no other job enters the active set
\* before it.
C6_StrictFifo ==
    [][/\ \A q \in Range(queue_order) \ Range(queue_order') :
            q = Head(queue_order) /\ q \in Keys(active_jobs')
       /\ queue_order # <<>> =>
            Keys(active_jobs') \ Keys(active_jobs) \subseteq {Head(queue_order)}
      ]_vars

\* C7: add_job for a paper_id that is in the active set or in the queue
\* returns that job's current status and leaves the active set, the queue,
\* the queue order and every field of every job unchanged.
C7_AddJobIdempotent ==
    [][ret' # None =>
        \A p \in Tracked :
          AddJob(p)
          => /\ active_jobs' = active_jobs
             /\ queued_jobs' = queued_jobs
             /\ queue_order' = queue_order
             /\ ret' = IF p \in Keys(active_jobs)
                       THEN Get(active_jobs, p).status
                       ELSE queued_jobs[p].status
      ]_vars

\* C7 witness: add_job has returned the status of a job that a worker had
\* already moved on, which it does only for a paper already tracked.
C7_Witness ==
    /\ ret \in {"processing", "completed", "failed"}
    /\ queue_order # <<>>

\* The instant a start_time string stands for.
TimeOf(start_time) ==
    IF Len(start_time) = 1 THEN start_time[1] * TicksPerSecond
    ELSE start_time[1] * TicksPerSecond + start_time[2]

\* C9: add_job and queue promotion remove an entry from the active set only
\* when the set is at capacity; the entry removed is completed or failed at
\* that moment and has the smallest start_time among the terminal entries;
\* no entry in a non-terminal status is removed.
C9_EvictsOldestTerminal ==
    [][Keys(active_jobs) \ Keys(active_jobs') # {} =>
        LET gone == Keys(active_jobs) \ Keys(active_jobs')
            came == Keys(active_jobs') \ Keys(active_jobs)
            Term(q) == Get(active_jobs, q).status \in {"completed", "failed"}
            \* T(r): r is terminal when the eviction runs
            Evicted(T(_)) ==
                /\ Cardinality(gone) = 1
                /\ Len(active_jobs) >= MAX_JOBS
                /\ \A q \in gone :
                    /\ T(q)
                    /\ \A r \in Keys(active_jobs) :
                        T(r) => TimeOf(Get(active_jobs, q).start_time)
                                  <= TimeOf(Get(active_jobs, r).start_time)
        IN  /\ \A p \in came : AddJob(p) => Evicted(Term)
            /\ ret' = None =>
                \A p \in Keys(active_jobs) : \A c \in TerminalCalls :
                    \* update_job has written the status of p before the
                    \* promotion evicts
                    LET TermNow(q) == Term(q) \/ q = p IN
                    (Touched(p, c) /\ UpdateJob(p, c)) => Evicted(TermNow)
      ]_vars

\* C9 witness: add_job has just evicted an entry of a full set in which
\* another terminal entry stays.
C9_Witness ==
    /\ effect.removed # {}
    /\ TerminalActive # {}
    /\ ret = "pending"

\* The stage the manager shows for a paper: while the pipeline runs, the
\* job's status is "processing" and its step names the stage.
JobStage(m, paper_id) ==
    IF paper_id \in Keys(m.active_jobs)
    THEN LET job == Get(m.active_jobs, paper_id) IN
         IF job.status = "processing" THEN job.step ELSE job.status
    ELSE get_job_status(m, paper_id)

StatusChain ==
    {<<"unknown", "pending">>, <<"unknown", "queued">>,
     <<"queued", "pending">>, <<"pending", "downloading">>,
     <<"downloading", "parsing">>, <<"parsing", "indexing">>,
     <<"indexing", "completed">>,
     <<"completed", "unknown">>, <<"failed", "unknown">>}
    \cup {<<a, "failed">> :
            a \in {"queued", "pending", "downloading", "parsing",
                   "indexing"}}

\* C10: the status of every tracked ingestion job is always one of pending,
\* queued, downloading, parsing, indexing, completed, failed, and it changes
\* only along queued -> pending -> downloading -> parsing -> indexing ->
\* completed, with failed reachable from any non-terminal status; completed
\* is never reached without passing through indexing.  The running stage is
\* read from the job's step; a job that is evicted is no longer tracked.
C10_StatusChain ==
    [][\A p \in WorkerPapers :
         LET a == JobStage(Manager, p)
             b == JobStage(ManagerNext, p)
         IN  /\ b \in {"unknown", "pending", "queued", "downloading",
                       "parsing", "indexing", "completed", "failed"}
             /\ a # b => <<a, b>> \in StatusChain
      ]_vars

\* C11: if the download, parse or index stage raises for a paper, that
\* paper's job ends in status failed: when the run whose stage raised
\* returns, the manager's entry for the paper has status failed, it is not
\* left in a non-terminal status.
C11_FailedStageEndsFailed ==
    [][\A w \in Workers :
         (pc[w] = "rollback" /\ pc'[w] = "done")
         => get_job_status(ManagerNext, wpaper[w]) = "failed"
      ]_vars

\* C12: after a terminal failure of a paper's ingestion the manager reports
\* the paper's job with status failed together with a non-empty error
\* string.
C12_FailedHasError ==
    \A i \in 1..Len(active_jobs) :
        active_jobs[i].status = "failed"
        => (active_jobs[i].error # None /\ active_jobs[i].error # "")

\* C13: when a paper's persisted ingestion status is already completed, a
\* further ingestion run for it returns at its first check: it runs no
\* download, parse or index stage and changes neither the persisted status
\* nor the job manager's state.
C13_CompletedIsNoOp ==
    [][\A w \in Workers :
         (pc[w] = "start" /\ db[wpaper[w]] = "completed" /\ pc'[w] # pc[w])
         => /\ pc'[w] = "skipped"
            /\ db' = db
            /\ ManagerNext = Manager
      ]_vars

\* C13 witness: a run has returned at the first check for a paper whose
\* persisted status is completed, while the manager tracks that paper.
C13_Witness ==
    \E w \in Workers :
        /\ pc[w] = "skipped"
        /\ db[wpaper[w]] = "completed"
        /\ get_job_status(Manager, wpaper[w]) = "completed"

\* C14: if a job is no longer tracked by the manager (get_job_status returns
\* unknown) when its worker has finished waiting for admission, the worker
\* returns normally: it runs no pipeline stage and writes no status, neither
\* to the persisted row nor to the manager.
C14_UntrackedAborts ==
    [][\A w \in Workers :
         (/\ pc[w] = "check"
          /\ get_job_status(Manager, wpaper[w]) = "unknown"
          /\ pc'[w] # pc[w])
         => /\ pc'[w] = "aborted"
            /\ db' = db
            /\ ManagerNext = Manager
      ]_vars

\* C14 witness: a worker has aborted because its paper's job, which add_job
\* had found tracked, was evicted before the check.
C14_Witness ==
    \E w \in Workers :
        /\ pc[w] = "aborted"
        /\ get_job_status(Manager, wpaper[w]) = "unknown"
        /\ Len(active_jobs) = MAX_JOBS

Indexed(s, paper_id, documents) ==
    \A i \in 1..Len(documents) :
        LET x == doc_id(s, paper_id, i, documents[i].text) IN
        /\ x \in DOMAIN index
        /\ index[x] = payload(paper_id, documents[i])

\* C19: indexing the same chunk list for the same paper_id a second time
\* with add_documents, in the same or in a different process, leaves the
\* collection with the same set of point ids and the same number of points:
\* the second call overwrites, it adds no point.
C19_ReindexAddsNoPoint ==
    [][\A p \in StorePapers : \A d \in DocLists :
         \A s1 \in HashSeeds : \A s2 \in HashSeeds :
           (/\ Indexed(s1, p, d)
            /\ ~added'.raised
            /\ index' = add_documents(index, s2, d, p, {}).index)
           => DOMAIN index' = DOMAIN index
      ]_vars

\* The ids a paper_id argument names.
IdsOf(paper_id) ==
    CASE paper_id.t = "none" -> {}
      [] paper_id.t = "str"  -> {paper_id.v}
      [] paper_id.t = "list" -> Range(paper_id.v)

\* C16: for every hybrid_search call given a paper_id filter, whether a
\* single id or a list of ids, every returned result's metadata paper_id is
\* one of the ids in the filter.
C16_ResultsInFilter ==
    (search.called /\ search.paper_id.t # "none")
    => \A i \in 1..Len(search.output) :
          search.output[i].metadata.paper_id \in IdsOf(search.paper_id)

\* The points of the collection that pass the filter of the last search.
Matching ==
    {x \in DOMAIN index :
        passes(index[x], build_filter(search.paper_id, search.section))}

\* C17: the paper_id and section filter restricts the dense and the sparse
\* candidate retrievals themselves (each capped at 2 x top_k), it is not
\* applied to the candidates after they have been retrieved: every result
\* passes the filter, and a filtered query returns top_k results whenever
\* at least top_k indexed chunks match the filter.
C17_PreFilter ==
    search.called
    => /\ \A i \in 1..Len(search.output) : search.output[i].id \in Matching
       /\ Cardinality(Matching) >= search.top_k
          => Len(search.output) = search.top_k

\* C17 witness: a search for paper A with top_k = 1 whose two best dense
\* and sparse candidates over the whole collection are all chunks of paper
\* B has returned a chunk of A.
C17_Witness ==
    /\ search.called
    /\ search.paper_id = PyStr("A")
    /\ search.top_k = 1
    /\ \A i \in 1..2 : index[search.dense[i]].paper_id = "B"
    /\ Len(search.sparse) >= 2
    /\ \A i \in 1..2 : index[search.sparse[i]].paper_id = "B"
    /\ Len(search.output) = 1
    /\ search.output[1].metadata.paper_id = "A"

\* The two candidate lists the last search fused.
Candidates ==
    LET Keep(x) == x \in Matching
    IN  <<take(SelectSeq(search.dense, Keep), search.top_k * 2),
          take(SelectSeq(search.sparse, Keep), search.top_k * 2)>>

Top3(seq) == Range(take(seq, 3))

OutputIds == {search.output[i].id : i \in 1..Len(search.output)}

\* x comes before y in the output; a chunk left out comes after all.
Before(x, y) ==
    /\ x \in OutputIds
    /\ y \in OutputIds =>
         \E i \in 1..Len(search.output) : \E j \in 1..Len(search.output) :
            i < j /\ search.output[i].id = x /\ search.output[j].id = y

\* C18 as stated: a chunk ranked in the top 3 of both the dense and the
\* sparse candidate list has a higher fused score, and is ranked before,
\* any chunk that appears in the top 3 of only one of the two lists.
C18_TopThreeOutranks ==
    search.called =>
      LET c == Candidates IN
      \A a \in Top3(c[1]) \cap Top3(c[2]) :
      \A b \in (Top3(c[1]) \cup Top3(c[2])) \ (Top3(c[1]) \cap Top3(c[2])) :
         /\ FracLess(rrf(c, b, search.k), rrf(c, a, search.k))
         /\ b \in OutputIds => Before(a, b)

\* C18 as amended: a chunk ranked in the top 3 of both candidate lists has
\* a fused score at least as high as any chunk that appears in only one of
\* the two candidate lists; when k > 1 its score is higher and it is ranked
\* before that chunk.
C18_BothOutranksSingle ==
    search.called =>
      LET c == Candidates IN
      \A a \in Top3(c[1]) \cap Top3(c[2]) :
      \A b \in (Range(c[1]) \cup Range(c[2])) \ (Range(c[1]) \cap Range(c[2])) :
         /\ ~FracLess(rrf(c, a, search.k), rrf(c, b, search.k))
         /\ search.k > 1 =>
              /\ FracLess(rrf(c, b, search.k), rrf(c, a, search.k))
              /\ b \in OutputIds => Before(a, b)

\* C18 witness: the output holds a chunk that is first in the dense list
\* and absent from the sparse one, after a chunk that is in the top 3 of
\* both.
C18_Witness ==
    /\ search.called
    /\ search.k > 1
    /\ LET c == Candidates IN
       \E a \in Top3(c[1]) \cap Top3(c[2]) : \E b \in OutputIds :
          /\ b \in Range(c[1]) \ Range(c[2])
          /\ position(c[1], b) = 1
          /\ a \in OutputIds
          /\ Before(a, b)

\* The headings of the markdown file, lower-cased, in source order.
HeadingsOf(file) ==
    LET hs == SelectSeq(file, LAMBDA l : l.heading)
    IN  [i \in 1..Len(hs) |-> lower(hs[i]).words]

\* The headings a paper should have as sections: every distinct heading
\* other than the first one and the references, at its first occurrence.
ExpectedSections(file) ==
    LET hs == HeadingsOf(file)
        New(i) == /\ hs[i] \notin {hs[1], <<"references">>}
                  /\ \A j \in 1..(i - 1) : hs[j] # hs[i]
        Idx == {i \in 1..Len(hs) : New(i)}
        Nth(n) == CHOOSE i \in Idx : Cardinality({j \in Idx : j < i}) = n - 1
    IN  [n \in 1..Cardinality(Idx) |-> hs[Nth(n)]]

\* The lines between an occurrence of the heading and the next heading,
\* lower-cased, without the blank lines at either end.
IsContentOf(content, file, heading) ==
    \E i \in 1..Len(file) :
       /\ file[i].heading
       /\ lower(file[i]).words = heading
       /\ \E j \in i..Len(file) :
            /\ \A n \in (i + 1)..j : ~file[n].heading
            /\ j = Len(file) \/ file[j + 1].heading
            /\ content = strip([n \in 1..(j - i) |-> lower(file[i + n]).words])

\* C20: for every document with at least one heading, parsing takes the
\* first heading as the paper title and returns as sections every other
\* distinct heading except references, lower-cased and in source order,
\* each with the lines from after its heading up to the next heading as
\* content.
C20_ParsedOutline ==
    (paper.called /\ HeadingsOf(md) # <<>>) =>
       /\ paper.ok
       /\ paper.title = HeadingsOf(md)[1]
       /\ [i \in 1..Len(paper.sections) |-> paper.sections[i].title]
             = ExpectedSections(md)
       /\ \A i \in 1..Len(paper.sections) :
             IsContentOf(paper.sections[i].content, md,
                         paper.sections[i].title)

\* The jobs the manager tracks: the active ones and the queued ones.
TrackedJobs ==
    Range(active_jobs) \cup {queued_jobs[p] : p \in DOMAIN queued_jobs}

\* C25: get_all_jobs returns every job the manager tracks, the active ones
\* and the queued ones, ordered by start_time with the newest first, and
\* leaves the active set, the queue and every job unchanged.
C25_AllJobsSnapshot ==
    [][all_jobs'.called =>
         LET jobs == all_jobs'.jobs IN
         /\ Range(jobs) = TrackedJobs
         /\ Len(jobs) = Cardinality(TrackedJobs)
         /\ \A i \in 1..Len(jobs) : \A j \in (i + 1)..Len(jobs) :
               ~str_lt(jobs[i].start_time, jobs[j].start_time)
         /\ UNCHANGED <<active_jobs, queued_jobs, queue_order>>]_vars

\* C26: in every reachable state of the job manager (under add_job,
\* update_job and clear_job), if the queue is non-empty then the number of
\* non-terminal jobs in the active set equals MAX_JOBS.
C26_NoIdleSlotWhileQueued ==
    queue_order # <<>> => Len(running_jobs(active_jobs)) = MAX_JOBS

\* C27: in every reachable state of the job manager, queue_order contains
\* no duplicate id, its elements are exactly the keys of queued_jobs, no
\* paper_id is in both active_jobs and queued_jobs, every job in
\* queued_jobs has status queued, and update_job on a queued or untracked
\* paper_id changes nothing and promotes nothing.
C27_QueueWellFormed ==
    /\ Cardinality(Range(queue_order)) = Len(queue_order)
    /\ Range(queue_order) = DOMAIN queued_jobs
    /\ Keys(active_jobs) \cap DOMAIN queued_jobs = {}
    /\ \A p \in DOMAIN queued_jobs : queued_jobs[p].status = "queued"
    /\ \A p \in PaperIds \ Keys(active_jobs) : \A c \in UpdateCalls :
          update_job(Manager, p, c.status, c.step, c.progress, c.error)
             = Manager

\* C27 witness: a promotion has just taken the head of a queue of two,
\* and update_job is called for the paper still queued.
C27_Witness ==
    /\ effect.promoted # {}
    /\ Len(queue_order) = 1
    /\ \E p \in DOMAIN queued_jobs : \E c \in UpdateCalls :
          update_job(Manager, p, c.status, c.step, c.progress, c.error)
             = Manager

\* The image blocks a markdown file can hold, and the data of each.
ImageBlocks ==
    base64_only_pattern \cup {"![Image](data:image/png;base64,QUJD)"}

DataOf(w) ==
    IF w = "![Image](data:image/png;base64,QUJD)" THEN "QUJD"
    ELSE base64_data(w)

\* A caption line: 'Figure N: <caption>.'
IsCaptionLine(words) ==
    /\ Len(words) >= 3
    /\ words[1] \in {"Figure", "figure"}
    /\ words[2] \in NumberWords
    /\ words[Len(words)] \in DotWords

\* The words of the contents and captions that extract_figures returned.
CleanedWords ==
    UNION {Range(join_lines(paper.outline[i].value.content)) :
             i \in 1..Len(paper.outline)}

\* C21: extracting figures from a section whose content is a caption line
\* 'Figure N: <caption>.' followed by a blank line and an inline base64 PNG
\* image yields exactly one figure record with figure_id N, that caption
\* (without the final period) and exactly that base64 data, and the
\* cleaned section content contains neither the caption line nor the
\* image block.
C21_FigureRoundTrip ==
    (/\ paper.called
     /\ Len(md) = 4
     /\ IsCaptionLine(md[2].words)
     /\ md[3].words = <<>>
     /\ md[4].words \in {<<w>> : w \in ImageBlocks})
    => LET cap == md[2].words IN
       /\ Len(paper.figures) = 1
       /\ paper.figures[1].figure_id = int(cap[2])
       /\ paper.figures[1].caption =
             SubSeq(cap, 3, Len(cap) - 1) \o <<before_dot(cap[Len(cap)])>>
       /\ paper.figures[1].data = DataOf(md[4].words[1])
       /\ CleanedWords = {}

\* The image at line n of the file has a caption: the paragraph before it,
\* set off by one blank line, starts with 'figure N: ' at the start of a
\* line and ends with a period.
HasCaption(n) ==
    /\ n >= 4
    /\ md[n - 1].words = <<>>
    /\ \E k \in 2..(n - 2) :
          /\ Len(md[k].words) >= 3
          /\ md[k].words[1] \in {"Figure", "figure"}
          /\ md[k].words[2] \in NumberWords
          /\ md[n - 2].words # <<>>
          /\ md[n - 2].words[Len(md[n - 2].words)] \in DotWords
          /\ \A x \in k..(n - 2) :
                /\ md[x].words # <<>>
                /\ md[x].words[1] \notin ImageBlocks

\* The data, as written and lower-cased, of the images with and without
\* a caption.
DataAt(n) ==
    {DataOf(md[n].words[1]), DataOf(lower_word(md[n].words[1]))}

ImageLinesOf == {n \in 2..Len(md) : /\ md[n].words # <<>>
                                    /\ md[n].words[1] \in ImageBlocks}

\* The data that only images without a caption carry.
UncaptionedData ==
    UNION {DataAt(n) : n \in {x \in ImageLinesOf : ~HasCaption(x)}}
      \ UNION {DataAt(n) : n \in {x \in ImageLinesOf : HasCaption(x)}}

\* C22: after extract_figures, the content of every section other than
\* references contains no inline base64 PNG image block, whether or not a
\* caption was matched for it; the data of an image block without a
\* matched caption appears in no figure record.
C22_NoImageDataKept ==
    paper.called =>
       /\ CleanedWords \cap ImageBlocks = {}
       /\ \A i \in 1..Len(paper.figures) :
             /\ paper.figures[i].data \notin UncaptionedData
             /\ \A w \in Range(paper.figures[i].caption) \cap ImageBlocks :
                   DataOf(w) \notin UncaptionedData

\* C23: add_documents writes all points of one call in a single upsert: if
\* computing the embedding of any chunk of the call fails, no point of that
\* call is written to the index; on success the returned count equals the
\* number of input chunks, and an empty batch returns 0 without any upsert.
C23_SingleUpsert ==
    [][added'.called =>
         /\ added'.upserts <= 1
         /\ added'.raised => index' = index
         /\ ~added'.raised => added'.ret = Len(added'.documents)
         /\ added'.documents = <<>> =>
               /\ ~added'.raised
               /\ added'.ret = 0
               /\ added'.upserts = 0
               /\ index' = index]_vars

\* C23 witness: the embedding of the second chunk of a call has failed
\* after the first chunk, which is not in the collection, was embedded.
C23_Witness ==
    /\ added.called
    /\ added.raised
    /\ Len(added.documents) = 2
    /\ added.documents[1].text \notin added.fails
    /\ \A x \in DOMAIN index : index[x].content # added.documents[1].text


---------------------------------------------------------------------------
(* The RQ path: get_queue (src/src/jobs/queue.py), enqueue_ingestion        *)
(* (src/src/api/routes/papers.py:19-48), its caller add_paper_to_project    *)
(* (src/src/api/routes/projects.py:119-232) and ingest_paper_task           *)
(* (src/src/jobs/ingestion.py:75-137) run by the RQ workers of              *)
(* src/src/worker.py. The requests and the tasks are about one paper.       *)

RqPaper == 1

\* get_redis_connection (queue.py:12-28). Redis.from_url builds the client
\* without connecting and line 21 stores it in the global before the ping of
\* line 23; a failed ping returns None and leaves the global as it is.
get_redis_connection(conn, up) ==
    IF conn = None
    THEN IF up
         THEN [conn |-> "Redis", ret |-> "Redis"]
         ELSE [conn |-> "Redis", ret |-> None]
    ELSE [conn |-> conn, ret |-> conn]

\* get_queue (queue.py:31-39).
get_queue(conn, up) ==
    LET c == get_redis_connection(conn, up) IN
    [conn |-> c.conn, ret |-> IF c.ret = None THEN None ELSE "Queue"]

\* enqueue_ingestion(paper_id, background_tasks) (papers.py:19-48) as its
\* one caller calls it, with a BackgroundTasks object (projects.py:223).
enqueue_ingestion(conn, up, queue, paper_id, outcome) ==
    LET q == get_queue(conn, up) IN
    IF q.ret # None
    THEN IF outcome = "ok"
         THEN [conn |-> q.conn, queue_ret |-> q.ret, raised |-> FALSE,
               rq_queue |-> Append(queue, [paper_id |-> paper_id,
                                           retries_left |-> MaxRetries]),
               queued |-> TRUE, method |-> "rq"]
         ELSE [conn |-> q.conn, queue_ret |-> q.ret, raised |-> TRUE,
               rq_queue |-> queue, queued |-> FALSE, method |-> "rq"]
    ELSE [conn |-> q.conn, queue_ret |-> q.ret, raised |-> FALSE,
          rq_queue |-> queue, queued |-> TRUE, method |-> "background_tasks"]

\* _update_status (jobs/ingestion.py:14-38): a transaction of its own that
\* writes the row when there is one.
jobs_update_status(d, paper_id, status) ==
    IF d[paper_id] # "absent" THEN [d EXCEPT ![paper_id] = status] ELSE d

\* The server stops answering, and answers again.
RedisDown ==
    /\ redis_up
    /\ redis_up' = FALSE
    /\ UNCHANGED <<mvars, wvars, now, ret, index, added, search, md, paper,
                   _redis_connection, enqueued, rq_queue, tpc, tjob, hpc,
                   hloaded, fvars>>

RedisUp ==
    /\ ~redis_up
    /\ redis_up' = TRUE
    /\ UNCHANGED <<mvars, wvars, now, ret, index, added, search, md, paper,
                   _redis_connection, enqueued, rq_queue, tpc, tjob, hpc,
                   hloaded, fvars>>

\* add_paper_to_project, lines 134-222: the row is loaded, created with no
\* status when missing (the column has no default), and its status is read.
HandlerLoad(h) ==
    /\ hpc[h] = "idle"
    /\ LET status == IF db[RqPaper] = "absent" THEN None ELSE db[RqPaper] IN
        /\ db' = [db EXCEPT ![RqPaper] = status]
        /\ hloaded' = [hloaded EXCEPT ![h] = status]
        /\ hpc' = [hpc EXCEPT ![h] =
                     IF status # "completed" THEN "enqueue" ELSE "done"]
    /\ UNCHANGED <<mvars, pc, wpaper, init_status, now, ret, index, added,
                   search, md, paper, _redis_connection, redis_up, enqueued,
                   rq_queue, tpc, tjob, fvars>>

\* Line 223: enqueue_ingestion(paper_id, background_tasks); an exception
\* ends the request. queue.enqueue(ingest_paper_task, paper_id,
\* job_timeout="30m", retry=3) (papers.py:31-36) raises without a server;
\* with one it stores the job, or raises on the integer given as retry,
\* depending on the installed RQ.
HandlerEnqueue(h, outcome) ==
    /\ hpc[h] = "enqueue"
    /\ outcome = "ok" => redis_up
    /\ LET r == enqueue_ingestion(_redis_connection, redis_up, rq_queue,
                                  RqPaper, outcome) IN
        /\ _redis_connection' = r.conn
        /\ rq_queue' = r.rq_queue
        /\ enqueued' = [called |-> TRUE, paper_id |-> RqPaper,
                        up |-> redis_up, queue |-> r.queue_ret,
                        raised |-> r.raised, queued |-> r.queued,
                        method |-> r.method]
        /\ hpc' = [hpc EXCEPT ![h] =
                     IF r.raised THEN "error"
                     ELSE IF r.queued THEN "set_pending" ELSE "done"]
    /\ UNCHANGED <<mvars, wvars, now, ret, index, added, search, md, paper,
                   redis_up, tpc, tjob, hloaded, fvars>>

\* Lines 226-227: paper.ingestion_status = "pending"; db.commit(). The
\* session sends an UPDATE unless the value it loaded is "pending" already.
HandlerSetPending(h) ==
    /\ hpc[h] = "set_pending"
    /\ db' = IF hloaded[h] # "pending"
             THEN [db EXCEPT ![RqPaper] = "pending"]
             ELSE db
    /\ hloaded' = [hloaded EXCEPT ![h] = "pending"]
    /\ hpc' = [hpc EXCEPT ![h] = "done"]
    /\ UNCHANGED <<mvars, pc, wpaper, init_status, now, ret, index, added,
                   search, md, paper, _redis_connection, redis_up, enqueued,
                   rq_queue, tpc, tjob, fvars>>

\* An idle worker takes the first job of the queue (worker.py:38-39).
TaskStart(t) ==
    /\ tpc[t] = "idle"
    /\ redis_up
    /\ rq_queue # <<>>
    /\ tjob' = [tjob EXCEPT ![t] = Head(rq_queue)]
    /\ rq_queue' = Tail(rq_queue)
    /\ tpc' = [tpc EXCEPT ![t] = "check"]
    /\ UNCHANGED <<mvars, wvars, now, ret, index, added, search, md, paper,
                   _redis_connection, redis_up, enqueued, hpc, hloaded,
                   fvars>>

\* ingest_paper_task, lines 93-101: a completed paper is skipped.
TaskCheck(t) ==
    /\ tpc[t] = "check"
    /\ IF db[tjob[t].paper_id] = "completed"
       THEN /\ tpc' = [tpc EXCEPT ![t] = "idle"]
            /\ tjob' = [tjob EXCEPT ![t] = NoJob]
       ELSE /\ tpc' = [tpc EXCEPT ![t] = "downloading"]
            /\ tjob' = tjob
    /\ UNCHANGED <<mvars, wvars, now, ret, index, added, search, md, paper,
                   _redis_connection, redis_up, enqueued, rq_queue, hpc,
                   hloaded, fvars>>

\* The status written after each one (lines 105, 112, 119, 126).
next_status(status) ==
    CASE status = "downloading" -> "parsing"
      [] status = "parsing" -> "indexing"
      [] status = "indexing" -> "completed"

\* Lines 105-122: a status is written, then the stage runs (download, parse,
\* ingest); a stage that raises leads to line 134.
TaskStage(t, stage_raises) ==
    /\ tpc[t] \in {"downloading", "parsing", "indexing"}
    /\ db' = jobs_update_status(db, tjob[t].paper_id, tpc[t])
    /\ tpc' = [tpc EXCEPT ![t] =
                 IF stage_raises THEN "failed" ELSE next_status(tpc[t])]
    /\ UNCHANGED <<mvars, pc, wpaper, init_status, now, ret, index, added,
                   search, md, paper, _redis_connection, redis_up, enqueued,
                   rq_queue, tjob, hpc, hloaded, fvars>>

\* Lines 126-129: completed is written and the task returns.
TaskCompleted(t) ==
    /\ tpc[t] = "completed"
    /\ db' = jobs_update_status(db, tjob[t].paper_id, "completed")
    /\ tpc' = [tpc EXCEPT ![t] = "idle"]
    /\ tjob' = [tjob EXCEPT ![t] = NoJob]
    /\ UNCHANGED <<mvars, pc, wpaper, init_status, now, ret, index, added,
                   search, md, paper, _redis_connection, redis_up, enqueued,
                   rq_queue, hpc, hloaded, fvars>>

\* Lines 131-137: failed is written and the exception goes to RQ, which
\* queues the job again while it has retries left.
TaskFailed(t) ==
    /\ tpc[t] = "failed"
    /\ db' = jobs_update_status(db, tjob[t].paper_id, "failed")
    /\ rq_queue' = IF tjob[t].retries_left > 0 /\ redis_up
                   THEN Append(rq_queue,
                               [tjob[t] EXCEPT !.retries_left = @ - 1])
                   ELSE rq_queue
    /\ tpc' = [tpc EXCEPT ![t] = "idle"]
    /\ tjob' = [tjob EXCEPT ![t] = NoJob]
    /\ UNCHANGED <<mvars, pc, wpaper, init_status, now, ret, index, added,
                   search, md, paper, _redis_connection, redis_up, enqueued,
                   hpc, hloaded, fvars>>

NextRq ==
    \/ RedisDown
    \/ RedisUp
    \/ \E h \in 1..NumHandlers : HandlerLoad(h)
    \/ \E h \in 1..NumHandlers : \E outcome \in {"ok", "raised"} :
        HandlerEnqueue(h, outcome)
    \/ \E h \in 1..NumHandlers : HandlerSetPending(h)
    \/ \E t \in 1..NumRqWorkers : TaskStart(t)
    \/ \E t \in 1..NumRqWorkers : TaskCheck(t)
    \/ \E t \in 1..NumRqWorkers : \E stage_raises \in BOOLEAN :
        TaskStage(t, stage_raises)
    \/ \E t \in 1..NumRqWorkers : TaskCompleted(t)
    \/ \E t \in 1..NumRqWorkers : TaskFailed(t)

SpecRq == Init /\ [][NextRq]_vars

\* C24: a call of enqueue_ingestion made while Redis is unreachable gets no
\* queue from get_queue, so that it does not attempt an RQ enqueue and falls
\* back to BackgroundTasks.
C24_NoQueueWhileRedisDown ==
    enqueued.called /\ ~enqueued.up =>
        enqueued.queue = None /\ enqueued.method = "background_tasks"

\* C28: a step of an ingest_paper_task run never changes a status that is
\* completed, however several runs for the paper interleave.
C28_CompletedIsFinal ==
    [][(tpc' # tpc /\ db[RqPaper] = "completed")
          => db'[RqPaper] = "completed"]_vars

\* C29: the handler's write of pending after a successful enqueue leaves in
\* place a status that the ingestion worker has written since the handler
\* read the row.
C29_PendingKeepsWorkerStatus ==
    [][\A h \in 1..NumHandlers :
          (/\ hpc[h] = "set_pending"
           /\ hpc'[h] = "done"
           /\ db[RqPaper] \in {"downloading", "parsing", "indexing",
                               "completed", "failed"}
           /\ db[RqPaper] # hloaded[h])
          => db'[RqPaper] = db[RqPaper]]_vars


---------------------------------------------------------------------------
(* PDFDownloader (src/src/ingestion/pdf_downloader.py). A file is the       *)
(* number of chunks of the body written to it; the body of every PDF has    *)
(* BodyChunks chunks.                                                       *)

BodyChunks == 2

\* What requests.get gives: get or raise_for_status raises a
\* RequestException or not (lines 77-78), the content type (line 81), and
\* the number of chunks iter_content yields before it raises one (line 87);
\* all the chunks when it does not.
Responses ==
    [ok : BOOLEAN, content_type : {"application/pdf", "text/html"},
     delivered : 0..BodyChunks]

\* download(paper_id, source_url) (lines 47-95) against the files fs; url is
\* the arXiv URL of line 36 or the source_url of the caller (lines 69-72).
download(fs, paper_id, url, response) ==
    IF fs[paper_id].exists
    THEN [files |-> fs, fetched |-> FALSE, raised |-> FALSE]
    ELSE IF ~response.ok
    THEN [files |-> fs, fetched |-> TRUE, raised |-> TRUE]
    ELSE IF /\ response.content_type # "application/pdf"   \* line 82
            /\ url # "https://arxiv.org/pdf/id.pdf"
    THEN [files |-> fs, fetched |-> TRUE, raised |-> TRUE]
    ELSE [files |-> [fs EXCEPT ![paper_id] =
                       [exists |-> TRUE, chunks |-> response.delivered]],
          fetched |-> TRUE,
          raised |-> response.delivered < BodyChunks]

\* delete(paper_id) (lines 97-104)
delete(fs, paper_id) == [fs EXCEPT ![paper_id] = NoFileAt]

Download(paper_id, url, response) ==
    /\ LET r == download(files, paper_id, url, response) IN
        /\ files' = r.files
        /\ dl' = [called |-> TRUE, paper_id |-> paper_id,
                  fetched |-> r.fetched, raised |-> r.raised,
                  before |-> files[paper_id], file |-> r.files[paper_id]]
    /\ UNCHANGED <<mvars, wvars, now, ret, index, added, search, md, paper,
                   qvars>>

Delete(paper_id) ==
    /\ files[paper_id].exists
    /\ files' = delete(files, paper_id)
    /\ dl' = dl
    /\ UNCHANGED <<mvars, wvars, now, ret, index, added, search, md, paper,
                   qvars>>

NextDownload ==
    \/ \E paper_id \in PaperIds :
       \E url \in {"https://arxiv.org/pdf/id.pdf", "https://host/paper"} :
       \E response \in Responses :
        Download(paper_id, url, response)
    \/ \E paper_id \in PaperIds : Delete(paper_id)

SpecDownload == Init /\ [][NextDownload]_vars

\* C30: a download that raised leaves no file at the paper's PDF path, and a
\* download that returned the path without fetching returned a file that an
\* earlier download wrote completely.
C30_NoPartialFile ==
    dl.called =>
        /\ dl.raised => ~dl.file.exists
        /\ (~dl.raised /\ ~dl.fetched) => dl.file.chunks = BodyChunks

====
